---------------------------- MODULE Spec2Model ----------------------------
(* The time span algebra of xoutil.future.datetime (TimeSpan, the          *)
(* EmptyTimeSpan singleton, DateField and infinity_extended_date) and the  *)
(* NEEDS_FLEX_DATE execution context flag of xoutil.context.               *)
(*                                                                         *)
(* Python values are records tagged by "kind":                             *)
(*   None, False, bool, date, xdate (an infinity_extended_date instance    *)
(*   of the Python 2 build), Infinity (sign 1 or -1), TimeSpan,            *)
(*   EmptyTimeSpan, raise (an exception that left the call).               *)
(* A date is its ordinal; dates compare as their ordinals do.              *)
EXTENDS Integers, FiniteSets, Sequences, TLC

(***************************************************************************)
(* Bounds                                                                  *)
(***************************************************************************)
MaxDate == 3
MaxNest == 1
MaxObjs == 2
MaxDepth == 3

Ords == 0..MaxDate

(***************************************************************************)
(* Python values                                                           *)
(***************************************************************************)
PyNone == [kind |-> "None"]
PyFalse == [kind |-> "False"]
Bool(v) == [kind |-> "bool", v |-> v]
Raise(e) == [kind |-> "raise", exc |-> e]
Date(n) == [kind |-> "date", ord |-> n]
XDate(n) == [kind |-> "xdate", ord |-> n]
Infinity == [kind |-> "Infinity", sign |-> 1]
NegInfinity == [kind |-> "Infinity", sign |-> -1]
EmptyTimeSpan == [kind |-> "EmptyTimeSpan"]
PyInt(v) == [kind |-> "int", v |-> v]
\* the string that is the ISO form "y-m-d" of the date of ordinal n
Str(n) == [kind |-> "str", ord |-> n]
Span(s, e) == [kind |-> "TimeSpan", start_date |-> s, end_date |-> e]

Dates == {Date(n) : n \in Ords}
Bounds == Dates \cup {PyNone}
Spans == {Span(s, e) : s, e \in Bounds}
Intervals == Spans \cup {EmptyTimeSpan}
\* operands that are neither a date, a TimeSpan nor the empty time span
Incompatible == {PyNone, PyFalse, PyInt(0), PyInt(5)} \cup {Str(n) : n \in Ords}

IsDate(v) == v.kind \in {"date", "xdate"}
IsRaise(v) == v.kind = "raise"
\* Truth value of an object: None and False are false, the empty time span
\* is false (__bool__), every date and every TimeSpan is true.
Truthy(v) == v.kind \notin {"None", "False", "EmptyTimeSpan"}

VARIABLES py2, count, a, b, c, p, op, res, ctx
vars == <<py2, count, a, b, c, p, op, res, ctx>>

(***************************************************************************)
(* xoutil.context, for the one name NEEDS_FLEX_DATE.  count is the count   *)
(* of the thread's Context object of that name; the object is in           *)
(* _data.contexts exactly while its count is positive.                     *)
(***************************************************************************)
MetaContext__contains__(n) == n > 0
Context__enter__(n) == n + 1
\* Context.__exit__ leaving the count as it is
Context__exit__Stuck(n) == n
Context__exit__(n) == n - 1

\* the count after `with context(NEEDS_FLEX_DATE): ...`, however the block
\* is left
WithBlock(n) == Context__exit__(Context__enter__(n))

(***************************************************************************)
(* The same name with several Context objects.  ctx.contexts is the entry  *)
(* of _data.contexts for the name (0: none, so that the lookup gives       *)
(* _null_context), ctx.counts the count of each object, ctx.blocks the     *)
(* objects of the open with blocks, innermost last, and ctx.raised whether *)
(* an __exit__ has raised.                                                 *)
(***************************************************************************)
Objs == 1..MaxObjs

NoBlocks ==
    [contexts |-> 0, counts |-> [i \in Objs |-> 0], blocks |-> <<>>,
     raised |-> FALSE]

\* bool(obj): __nonzero__ gives the count on Python 2; Python 3 looks for
\* __bool__ and __len__, Context has neither, and the object is true
Context__nonzero__(x, i) == IF py2 THEN x.counts[i] # 0 ELSE TRUE

\* MetaContext.__getitem__ and __contains__ on the registry
MetaContext__getitem__(x) == x.contexts
NameInContext(x) ==
    LET r == MetaContext__getitem__(x)
    IN r # 0 /\ Context__nonzero__(x, r)

\* Context.__new__: the registered object when it is true, else a new
\* object, which has count 0 (any object that is in no block stands for it)
Context__new__(x) ==
    IF NameInContext(x) THEN {MetaContext__getitem__(x)}
    ELSE {i \in Objs : x.counts[i] = 0}

\* Context.__enter__ of object i
EnterObject(x, i) ==
    [x EXCEPT !.contexts = IF x.counts[i] = 0 THEN i ELSE @,
              !.counts[i] = @ + 1,
              !.blocks = Append(@, i)]

\* Context.__exit__ of the innermost block's object: `del
\* _data.contexts[self.name]` raises KeyError when the name is not there
ExitObject(x) ==
    LET i == x.blocks[Len(x.blocks)]
        n == x.counts[i] - 1
    IN [x EXCEPT !.counts[i] = n,
                 !.blocks = SubSeq(@, 1, Len(@) - 1),
                 !.contexts = IF n = 0 THEN 0 ELSE @,
                 !.raised = @ \/ (n = 0 /\ x.contexts = 0)]

(***************************************************************************)
(* The ordering of xoutil.infinity: Infinity and -Infinity against dates   *)
(* and against each other.                                                 *)
(***************************************************************************)
InfinityCompare(self, other) ==
    IF other.kind = "Infinity"
    THEN IF self.sign = other.sign THEN "EQUAL"
         ELSE IF self.sign < other.sign THEN "LESS" ELSE "GREATER"
    ELSE IF self.sign < 0 THEN "LESS" ELSE "GREATER"

InfinityOp(name, self, other) ==
    LET r == InfinityCompare(self, other)
    IN CASE name = "__le__" -> r \in {"LESS", "EQUAL"}
         [] name = "__lt__" -> r = "LESS"
         [] name = "__ge__" -> r \in {"GREATER", "EQUAL"}
         [] name = "__gt__" -> r = "GREATER"

\* datetime.date's own comparison of two dates
DateOp(name, x, y) ==
    CASE name = "__le__" -> x.ord <= y.ord
      [] name = "__lt__" -> x.ord < y.ord
      [] name = "__ge__" -> x.ord >= y.ord
      [] name = "__gt__" -> x.ord > y.ord

Reflected(name) ==
    CASE name = "__le__" -> "__ge__"
      [] name = "__lt__" -> "__gt__"
      [] name = "__ge__" -> "__le__"
      [] name = "__gt__" -> "__lt__"

\* infinity_extended_date.operator with T taken the other way round
infinity_extended_date_operatorFlipped(name, self, other) ==
    LET T == name \in {"__ge__", "__gt__"}
    IN IF other = Infinity THEN T
       ELSE IF other = NegInfinity THEN ~T
       ELSE DateOp(name, self, other)

\* infinity_extended_date.operator(name, T): __le__ and __lt__ are built
\* with T = True, __ge__ and __gt__ with T = False.
infinity_extended_date_operator(name, self, other) ==
    LET T == name \in {"__le__", "__lt__"}
    IN IF other = Infinity THEN T
       ELSE IF other = NegInfinity THEN ~T
       ELSE DateOp(name, self, other)

\* `l <name> r` as Python evaluates it for dates and infinities: the left
\* operand's method first, except that a right operand of a subclass of
\* the left one's type goes first with its reflected method; a plain date
\* answers NotImplemented to an infinity, and the infinity's reflected
\* method decides.
RichCompare(name, l, r) ==
    CASE l.kind = "xdate" -> infinity_extended_date_operator(name, l, r)
      [] l.kind = "date" ->
           IF r.kind = "Infinity" THEN InfinityOp(Reflected(name), r, l)
           ELSE IF r.kind = "xdate"
                THEN infinity_extended_date_operator(Reflected(name), r, l)
                ELSE DateOp(name, l, r)
      [] l.kind = "Infinity" -> InfinityOp(name, l, r)

\* builtin max(x, y) and min(x, y): the first argument unless the second
\* is strictly greater (smaller)
max(x, y) == IF RichCompare("__gt__", y, x) THEN y ELSE x
min(x, y) == IF RichCompare("__lt__", y, x) THEN y ELSE x

\* `x or y`
Or(x, y) == IF Truthy(x) THEN x ELSE y

(***************************************************************************)
(* infinity_extended_date and DateField                                    *)
(***************************************************************************)
\* infinity_extended_date(res.year, res.month, res.day): the subclass on
\* Python 2, datetime.date itself on Python 3
infinity_extended_date(d) ==
    IF py2 THEN XDate(d.ord) ELSE Date(d.ord)

\* DateField.__get__ with n the count of NEEDS_FLEX_DATE at the read
DateField__get__(instance, name, n) ==
    LET r == instance[name]
    IN IF Truthy(r) /\ MetaContext__contains__(n)
       THEN infinity_extended_date(r)
       ELSE r

\* parse_date of a true value: value.split('-') gives the date of an ISO
\* string and fails on a number, which has no split
parse_date(value) ==
    CASE value.kind = "str" -> Date(value.ord)
      [] value.kind = "int" -> Raise("AttributeError")

\* DateField.__set__ (nullable): the value stored, or the exception.
\* `value in (None, False)` compares value with None by ==, which for the
\* empty time span is _EmptyTimeSpan.__eq__(None): a TypeError.
\* 0 equals False, so it is taken for None as well; a string or another
\* number goes to parse_date.
DateField__set__(value) ==
    CASE value.kind \in {"None", "False"} -> PyNone
      [] value.kind = "EmptyTimeSpan" -> Raise("TypeError")
      [] IsDate(value) -> value
      [] value.kind = "int" -> IF value.v = 0 THEN PyNone ELSE parse_date(value)
      [] value.kind = "str" -> parse_date(value)

\* TimeSpan.__init__(start_date, end_date)
TimeSpan__init__(start_date, end_date) ==
    LET s == DateField__set__(start_date)
        e == DateField__set__(end_date)
    IN IF IsRaise(s) THEN s
       ELSE IF IsRaise(e) THEN e
       ELSE Span(s, e)

from_date(date) == TimeSpan__init__(date, date)

(***************************************************************************)
(* TimeSpan                                                                *)
(***************************************************************************)
\* hash(date) depends on the day alone (the subclass inherits it);
\* hash(None) is one more value.  The pairs of modelled bounds get
\* pairwise distinct hashes: collisions of the 64-bit tuple hash are not
\* modelled.
HashBound(v) == IF v.kind = "None" THEN 0 ELSE v.ord + 1

\* TimeSpan.__hash__ hashing the start date twice
TimeSpan__hash__StartOnly(self, n) ==
    HashBound(DateField__get__(self, "start_date", n)) * (MaxDate + 2)
      + HashBound(DateField__get__(self, "start_date", n))

\* TimeSpan.__hash__: hash((self.start_date, self.end_date))
TimeSpan__hash__(self, n) ==
    HashBound(DateField__get__(self, "start_date", n)) * (MaxDate + 2)
      + HashBound(DateField__get__(self, "end_date", n))

\* TimeSpan.__eq__
TimeSpan__eq__(self, other, n) ==
    LET o1 == IF IsDate(other) THEN from_date(other) ELSE other
        o2 == IF o1.kind # "TimeSpan" THEN TimeSpan__init__(o1, PyNone)
              ELSE o1
    IN IF IsRaise(o2) THEN o2
       ELSE Bool(TimeSpan__hash__(self, n) = TimeSpan__hash__(o2, n))

\* _EmptyTimeSpan.__eq__: `self is which` for the supported types
EmptyTimeSpan__eq__(self, which) ==
    IF which.kind \in {"TimeSpan", "EmptyTimeSpan"} \/ IsDate(which)
    THEN Bool(which.kind = "EmptyTimeSpan")
    ELSE Raise("TypeError")

\* TimeSpan.__and__ with `start < end` for `start <= end`
TimeSpan__and__Strict(self, other, n) ==
    IF other.kind = "EmptyTimeSpan" THEN other
    ELSE IF other.kind # "TimeSpan" /\ ~IsDate(other) THEN Raise("TypeError")
    ELSE
      LET o == IF IsDate(other) THEN from_date(other) ELSE other
          m == Context__enter__(n)
          start == max(Or(DateField__get__(self, "start_date", m), NegInfinity),
                       Or(DateField__get__(o, "start_date", m), NegInfinity))
          end == min(Or(DateField__get__(self, "end_date", m), Infinity),
                     Or(DateField__get__(o, "end_date", m), Infinity))
      IN IF RichCompare("__lt__", start, end)
         THEN TimeSpan__init__(IF start = NegInfinity THEN PyNone ELSE start,
                               IF end = Infinity THEN PyNone ELSE end)
         ELSE EmptyTimeSpan

\* TimeSpan.__and__ taking the result for unbound where self is unbound
TimeSpan__and__SelfUnbound(self, other, n) ==
    IF other.kind = "EmptyTimeSpan" THEN other
    ELSE IF other.kind # "TimeSpan" /\ ~IsDate(other) THEN Raise("TypeError")
    ELSE
      LET o == IF IsDate(other) THEN from_date(other) ELSE other
          m == Context__enter__(n)
          start == max(Or(DateField__get__(self, "start_date", m), NegInfinity),
                       Or(DateField__get__(o, "start_date", m), NegInfinity))
          end == min(Or(DateField__get__(self, "end_date", m), Infinity),
                     Or(DateField__get__(o, "end_date", m), Infinity))
      IN IF RichCompare("__le__", start, end)
         THEN TimeSpan__init__(
                IF self.start_date = PyNone THEN PyNone ELSE start,
                IF self.end_date = PyNone THEN PyNone ELSE end)
         ELSE EmptyTimeSpan

\* TimeSpan.__and__ passing other types to the constructor, as its
\* docstring says
TimeSpan__and__Coerce(self, other, n) ==
    IF other.kind = "EmptyTimeSpan" THEN other
    ELSE
      LET o == IF IsDate(other) THEN from_date(other)
               ELSE IF other.kind # "TimeSpan"
                    THEN TimeSpan__init__(other, PyNone)
                    ELSE other
          m == Context__enter__(n)
      IN IF IsRaise(o) THEN o
         ELSE
           LET start == max(Or(DateField__get__(self, "start_date", m), NegInfinity),
                            Or(DateField__get__(o, "start_date", m), NegInfinity))
               end == min(Or(DateField__get__(self, "end_date", m), Infinity),
                          Or(DateField__get__(o, "end_date", m), Infinity))
           IN IF RichCompare("__le__", start, end)
              THEN TimeSpan__init__(IF start = NegInfinity THEN PyNone ELSE start,
                                    IF end = Infinity THEN PyNone ELSE end)
              ELSE EmptyTimeSpan

\* TimeSpan.__and__
TimeSpan__and__(self, other, n) ==
    IF other.kind = "EmptyTimeSpan" THEN other
    ELSE IF other.kind # "TimeSpan" /\ ~IsDate(other) THEN Raise("TypeError")
    ELSE
      LET o == IF IsDate(other) THEN from_date(other) ELSE other
          m == Context__enter__(n)
          start == max(Or(DateField__get__(self, "start_date", m), NegInfinity),
                       Or(DateField__get__(o, "start_date", m), NegInfinity))
          end == min(Or(DateField__get__(self, "end_date", m), Infinity),
                     Or(DateField__get__(o, "end_date", m), Infinity))
      IN IF RichCompare("__le__", start, end)
         THEN TimeSpan__init__(IF start = NegInfinity THEN PyNone ELSE start,
                               IF end = Infinity THEN PyNone ELSE end)
         ELSE EmptyTimeSpan

\* _EmptyTimeSpan.__mul__ returning its operand, as __add__ does
EmptyTimeSpan__mul__AsAdd(self, other) ==
    IF other.kind \in {"TimeSpan", "EmptyTimeSpan"} \/ IsDate(other)
    THEN other
    ELSE Raise("TypeError")

\* _EmptyTimeSpan.__mul__ (= __and__)
EmptyTimeSpan__mul__(self, other) ==
    IF other.kind \in {"TimeSpan", "EmptyTimeSpan"} \/ IsDate(other)
    THEN self
    ELSE Raise("TypeError")

\* `x & y` and `x == y` with an interval as left operand; an exception
\* raised while an operand was evaluated leaves the expression
And(x, y, n) ==
    IF IsRaise(x) THEN x
    ELSE IF IsRaise(y) THEN y
    ELSE IF x.kind = "EmptyTimeSpan" THEN EmptyTimeSpan__mul__(x, y)
    ELSE TimeSpan__and__(x, y, n)

Eq(x, y, n) ==
    IF IsRaise(x) THEN x
    ELSE IF IsRaise(y) THEN y
    ELSE IF x.kind = "EmptyTimeSpan" THEN EmptyTimeSpan__eq__(x, y)
    ELSE TimeSpan__eq__(x, y, n)

\* TimeSpan.intersection(*others): reduce(operator.mul, others, self)
RECURSIVE reduce_mul(_, _, _)
reduce_mul(acc, others, n) ==
    IF others = <<>> THEN acc
    ELSE reduce_mul(And(acc, Head(others), n), Tail(others), n)

\* intersection folding the others alone: reduce(operator.mul, others)
intersectionNoInitial(self, others, n) ==
    IF others = <<>> THEN Raise("TypeError")
    ELSE reduce_mul(Head(others), Tail(others), n)

intersection(self, others, n) == reduce_mul(self, others, n)

\* TimeSpan.__contains__ with the start compared by `<`
TimeSpan__contains__Strict(self, other, n) ==
    LET start_date == DateField__get__(self, "start_date", n)
        end_date == DateField__get__(self, "end_date", n)
    IN IF IsDate(other)
       THEN IF Truthy(start_date) /\ Truthy(end_date)
            THEN Bool(RichCompare("__lt__", start_date, other)
                      /\ RichCompare("__le__", other, end_date))
            ELSE IF Truthy(start_date)
            THEN Bool(RichCompare("__lt__", start_date, other))
            ELSE IF Truthy(end_date)
            THEN Bool(RichCompare("__le__", other, end_date))
            ELSE Bool(TRUE)
       ELSE Bool(FALSE)

\* TimeSpan.__contains__
TimeSpan__contains__(self, other, n) ==
    LET start_date == DateField__get__(self, "start_date", n)
        end_date == DateField__get__(self, "end_date", n)
    IN IF IsDate(other)
       THEN IF Truthy(start_date) /\ Truthy(end_date)
            THEN Bool(RichCompare("__le__", start_date, other)
                      /\ RichCompare("__le__", other, end_date))
            ELSE IF Truthy(start_date)
            THEN Bool(RichCompare("__le__", start_date, other))
            ELSE IF Truthy(end_date)
            THEN Bool(RichCompare("__le__", other, end_date))
            ELSE Bool(TRUE)
       ELSE Bool(FALSE)

\* _EmptyTimeSpan.__contains__
EmptyTimeSpan__contains__(self, which) == Bool(FALSE)

\* TimeSpan.__le__ (issubset): (self & other) == self
TimeSpan__le__(self, other, n) == Eq(And(self, other, n), self, n)

\* TimeSpan.__ge__ (issuperset, covers): (self & other) == other
TimeSpan__ge__(self, other, n) == Eq(And(self, other, n), other, n)

\* _EmptyTimeSpan.__le__ answering as __eq__ does
EmptyTimeSpan__le__AsEq(self, which) ==
    IF which.kind \in {"TimeSpan", "EmptyTimeSpan"} \/ IsDate(which)
    THEN Bool(which.kind = "EmptyTimeSpan")
    ELSE Raise("TypeError")

\* _EmptyTimeSpan.__le__
EmptyTimeSpan__le__(self, which) ==
    IF which.kind \in {"TimeSpan", "EmptyTimeSpan"} \/ IsDate(which)
    THEN Bool(TRUE)
    ELSE Raise("TypeError")

\* _EmptyTimeSpan.__ge__ = covers = __eq__
EmptyTimeSpan__ge__(self, which) == EmptyTimeSpan__eq__(self, which)

\* `y in x`, `x <= y`, `x >= y` with an interval as left operand x
Contains(x, y, n) ==
    IF x.kind = "EmptyTimeSpan" THEN EmptyTimeSpan__contains__(x, y)
    ELSE TimeSpan__contains__(x, y, n)

Le(x, y, n) ==
    IF x.kind = "EmptyTimeSpan" THEN EmptyTimeSpan__le__(x, y)
    ELSE TimeSpan__le__(x, y, n)

Ge(x, y, n) ==
    IF x.kind = "EmptyTimeSpan" THEN EmptyTimeSpan__ge__(x, y)
    ELSE TimeSpan__ge__(x, y, n)

\* `not v`, for v a Boolean or an exception on its way out
Not(v) == IF IsRaise(v) THEN v ELSE Bool(~v.v)

\* TimeSpan.__ne__: not (self == other)
TimeSpan__ne__(self, other, n) == Not(TimeSpan__eq__(self, other, n))

\* TimeSpan.__lt__: self != other and self <= other
TimeSpan__lt__(self, other, n) ==
    LET ne == TimeSpan__ne__(self, other, n)
    IN IF IsRaise(ne) THEN ne
       ELSE IF ~ne.v THEN ne
       ELSE TimeSpan__le__(self, other, n)

\* TimeSpan.__gt__: self != other and self >= other
TimeSpan__gt__(self, other, n) ==
    LET ne == TimeSpan__ne__(self, other, n)
    IN IF IsRaise(ne) THEN ne
       ELSE IF ~ne.v THEN ne
       ELSE TimeSpan__ge__(self, other, n)

\* _EmptyTimeSpan.__ne__: not (self == which)
EmptyTimeSpan__ne__(self, which) == Not(EmptyTimeSpan__eq__(self, which))

\* _EmptyTimeSpan.__lt__ = isdisjoint = __ne__
EmptyTimeSpan__lt__(self, which) == EmptyTimeSpan__ne__(self, which)

\* _EmptyTimeSpan.__gt__
EmptyTimeSpan__gt__(self, which) ==
    IF which.kind \in {"TimeSpan", "EmptyTimeSpan"} \/ IsDate(which)
    THEN Bool(TRUE)
    ELSE Raise("TypeError")

\* `x != y`, `x < y`, `x > y` with an interval as left operand x
Ne(x, y, n) ==
    IF x.kind = "EmptyTimeSpan" THEN EmptyTimeSpan__ne__(x, y)
    ELSE TimeSpan__ne__(x, y, n)

Lt(x, y, n) ==
    IF x.kind = "EmptyTimeSpan" THEN EmptyTimeSpan__lt__(x, y)
    ELSE TimeSpan__lt__(x, y, n)

Gt(x, y, n) ==
    IF x.kind = "EmptyTimeSpan" THEN EmptyTimeSpan__gt__(x, y)
    ELSE TimeSpan__gt__(x, y, n)

\* TimeSpan.overlaps: bool(self & other); a TimeSpan is true (it defines
\* neither __bool__ nor __len__), the empty time span is false
overlaps(self, other, n) ==
    LET r == And(self, other, n)
    IN IF IsRaise(r) THEN r ELSE Bool(Truthy(r))

\* TimeSpan.isdisjoint without the `not`
TimeSpan__isdisjointAsOverlaps(self, other, n) == overlaps(self, other, n)

\* TimeSpan.isdisjoint: not self.overlaps(other)
TimeSpan__isdisjoint(self, other, n) == Not(overlaps(self, other, n))

\* _EmptyTimeSpan.isdisjoint bound to __eq__
EmptyTimeSpan__isdisjointAsEq(self, which) == EmptyTimeSpan__eq__(self, which)

\* _EmptyTimeSpan.isdisjoint = __ne__
EmptyTimeSpan__isdisjoint(self, which) == EmptyTimeSpan__ne__(self, which)

Isdisjoint(x, y, n) ==
    IF x.kind = "EmptyTimeSpan" THEN EmptyTimeSpan__isdisjoint(x, y)
    ELSE TimeSpan__isdisjoint(x, y, n)

\* _EmptyTimeSpan.__add__ returning self, as __mul__ does
EmptyTimeSpan__add__AsMul(self, which) ==
    IF which.kind \in {"TimeSpan", "EmptyTimeSpan"} \/ IsDate(which)
    THEN self
    ELSE Raise("TypeError")

\* _EmptyTimeSpan.__add__
EmptyTimeSpan__add__(self, which) ==
    IF which.kind \in {"TimeSpan", "EmptyTimeSpan"} \/ IsDate(which)
    THEN which
    ELSE Raise("TypeError")

\* _EmptyTimeSpan.__or__ = __add__
EmptyTimeSpan__or__(self, which) == EmptyTimeSpan__add__(self, which)

\* TimeSpan.past_unbound, future_unbound, unbound, bound
past_unbound(self, n) == DateField__get__(self, "start_date", n) = PyNone
future_unbound(self, n) == DateField__get__(self, "end_date", n) = PyNone
unbound(self, n) == future_unbound(self, n) \/ past_unbound(self, n)
bound(self, n) == ~unbound(self, n)

\* TimeSpan.valid comparing by `<`
validStrict(self, n) ==
    LET m == Context__enter__(n)
    IN IF bound(self, m)
       THEN Bool(RichCompare("__lt__", DateField__get__(self, "start_date", m),
                                       DateField__get__(self, "end_date", m)))
       ELSE Bool(TRUE)

\* TimeSpan.valid
valid(self, n) ==
    LET m == Context__enter__(n)
    IN IF bound(self, m)
       THEN Bool(RichCompare("__le__", DateField__get__(self, "start_date", m),
                                       DateField__get__(self, "end_date", m)))
       ELSE Bool(TRUE)

\* TimeSpan.intersection(*spans) with the universal span for a missing self
TimeSpan_intersectionIdentity(spans, n) ==
    IF spans = <<>> THEN Span(PyNone, PyNone)
    ELSE IF py2 /\ Head(spans).kind # "TimeSpan" THEN Raise("TypeError")
    ELSE intersection(Head(spans), Tail(spans), n)

\* TimeSpan.intersection(*spans), the method called through the class: the
\* first span is bound to self; with no span the call itself fails for the
\* missing self, and on Python 2 the unbound method also requires self to
\* be a TimeSpan
TimeSpan_intersection(spans, n) ==
    IF spans = <<>> THEN Raise("TypeError")
    ELSE IF py2 /\ Head(spans).kind # "TimeSpan" THEN Raise("TypeError")
    ELSE intersection(Head(spans), Tail(spans), n)

(***************************************************************************)
(* infinity_extended_date compared with an infinity or a date              *)
(***************************************************************************)
\* infinity_extended_date.__eq__
infinity_extended_date__eq__(self, other, n) ==
    IF other.kind = "EmptyTimeSpan" THEN Bool(FALSE)
    ELSE IF other.kind = "TimeSpan" THEN Eq(from_date(self), other, n)
    ELSE IF other = Infinity \/ other = NegInfinity THEN Bool(FALSE)
    ELSE Bool(self.ord = other.ord)

\* `l <name> r` for l an infinity_extended_date: on Python 2 the methods of
\* the subclass; on Python 3 the class is datetime.date, which leaves an
\* infinity to the infinity's reflected method (== reflects to ==).
Compare(name, l, r, n) ==
    IF name = "__eq__"
    THEN IF l.kind = "xdate" THEN infinity_extended_date__eq__(l, r, n)
         ELSE IF r.kind = "xdate" THEN infinity_extended_date__eq__(r, l, n)
         ELSE IF r.kind = "Infinity" THEN Bool(InfinityCompare(r, l) = "EQUAL")
         ELSE Bool(l.ord = r.ord)
    ELSE IF l.kind = "xdate"
         THEN Bool(infinity_extended_date_operator(name, l, r))
         ELSE Bool(RichCompare(name, l, r))

(***************************************************************************)
(* The state machine: a caller holding intervals a, b, c and a date p      *)
(* applies one operation at a time; op names the last one and res is what  *)
(* it returned or raised.                                                  *)
(***************************************************************************)
Init ==
    /\ py2 \in BOOLEAN
    /\ count = 0
    /\ a \in Intervals
    /\ b \in Intervals
    /\ c = b
    /\ p \in Dates
    /\ op = "none"
    /\ res = PyNone
    /\ ctx = NoBlocks

Frame == UNCHANGED <<py2, count, a, b, c, p, ctx>>

\* the caller opens or closes a `with context(NEEDS_FLEX_DATE):` block
CallerEnter ==
    /\ count < MaxNest
    /\ count' = Context__enter__(count)
    /\ op' = "enter" /\ res' = PyNone
    /\ UNCHANGED <<py2, a, b, c, p, ctx>>

CallerExit ==
    /\ count > 0
    /\ count' = Context__exit__(count)
    /\ op' = "exit" /\ res' = PyNone
    /\ UNCHANGED <<py2, a, b, c, p, ctx>>

\* TimeSpan.__and__ opens its with block once the operand is a TimeSpan
\* or a date; _EmptyTimeSpan.__and__ opens none
DoAnd ==
    /\ op' = "and"
    /\ res' = And(a, b, count)
    /\ count' = IF a.kind = "TimeSpan" /\ (b.kind = "TimeSpan" \/ IsDate(b))
                THEN WithBlock(count)
                ELSE count
    /\ UNCHANGED <<py2, a, b, c, p, ctx>>

DoEq ==
    /\ op' = "eq"
    /\ res' = Eq(a, b, count)
    /\ Frame

DoContains ==
    /\ op' = "contains"
    /\ res' = Contains(a, p, count)
    /\ Frame

DoLe ==
    /\ op' = "le"
    /\ res' = Le(a, b, count)
    /\ Frame

DoGe ==
    /\ op' = "ge"
    /\ res' = Ge(a, b, count)
    /\ Frame

\* a.intersection(b, c), for a TimeSpan a
DoIntersection ==
    /\ a.kind = "TimeSpan"
    /\ op' = "intersection"
    /\ res' = intersection(a, <<b, c>>, count)
    /\ Frame

DoNe ==
    /\ op' = "ne"
    /\ res' = Ne(a, b, count)
    /\ Frame

DoLt ==
    /\ op' = "lt"
    /\ res' = Lt(a, b, count)
    /\ Frame

DoGt ==
    /\ op' = "gt"
    /\ res' = Gt(a, b, count)
    /\ Frame

\* a.overlaps(b), for a TimeSpan a
DoOverlaps ==
    /\ a.kind = "TimeSpan"
    /\ op' = "overlaps"
    /\ res' = overlaps(a, b, count)
    /\ Frame

DoIsdisjoint ==
    /\ op' = "isdisjoint"
    /\ res' = Isdisjoint(a, b, count)
    /\ Frame

\* EmptyTimeSpan + b and EmptyTimeSpan | b
DoEmptyAdd ==
    /\ a = EmptyTimeSpan
    /\ op' = "add"
    /\ res' = EmptyTimeSpan__add__(a, b)
    /\ Frame

DoEmptyOr ==
    /\ a = EmptyTimeSpan
    /\ op' = "or"
    /\ res' = EmptyTimeSpan__or__(a, b)
    /\ Frame

\* a.valid, for a TimeSpan a
DoValid ==
    /\ a.kind = "TimeSpan"
    /\ op' = "valid"
    /\ res' = valid(a, count)
    /\ count' = WithBlock(count)
    /\ UNCHANGED <<py2, a, b, c, p, ctx>>

\* a.intersection() and a.intersection(b), for a TimeSpan a
DoIntersection0 ==
    /\ a.kind = "TimeSpan"
    /\ op' = "intersection0"
    /\ res' = intersection(a, <<>>, count)
    /\ Frame

DoIntersection1 ==
    /\ a.kind = "TimeSpan"
    /\ op' = "intersection1"
    /\ res' = intersection(a, <<b>>, count)
    /\ Frame

\* TimeSpan.intersection(*spans) for the first k of the spans a, b
FoldName == <<"fold0", "fold1", "fold2">>

DoFold ==
    /\ \E k \in 0..2 :
          /\ op' = FoldName[k + 1]
          /\ res' = TimeSpan_intersection(SubSeq(<<a, b>>, 1, k), count)
    /\ Frame

\* `b in a`
DoContainsB ==
    /\ op' = "contains_b"
    /\ res' = Contains(a, b, count)
    /\ Frame

\* `a & p` and `a == p` with the date p
DoAndP ==
    /\ op' = "and_p"
    /\ res' = And(a, p, count)
    /\ Frame

DoEqP ==
    /\ op' = "eq_p"
    /\ res' = Eq(a, p, count)
    /\ Frame

\* `a.start_date = v` / `a.end_date = v` on a TimeSpan a: DateField.__set__
\* stores the value in the instance's __dict__
DoSetAttr ==
    /\ a.kind = "TimeSpan"
    /\ \E f \in {"start_date", "end_date"}, v \in Bounds \cup {PyFalse, EmptyTimeSpan} :
          LET s == DateField__set__(v)
          IN IF IsRaise(s)
             THEN a' = a /\ res' = s
             ELSE a' = [a EXCEPT ![f] = s] /\ res' = PyNone
    /\ op' = "setattr"
    /\ UNCHANGED <<py2, count, b, c, p, ctx>>

\* infinity_extended_date(p) compared with an infinity or another date
CompareNames == {"__le__", "__lt__", "__ge__", "__gt__", "__eq__"}

DoCompare ==
    /\ \E name \in CompareNames,
          other \in {Infinity, NegInfinity} \cup Dates
                    \cup {infinity_extended_date(d) : d \in Dates} :
          /\ op' = name
          /\ res' = [kind |-> "compare", other |-> other,
                     v |-> Compare(name, infinity_extended_date(p), other, count).v]
    /\ Frame

\* `with context(name):` enters the object that Context.__new__ returns
DoWithNew ==
    /\ Len(ctx.blocks) < MaxDepth
    /\ \E i \in Context__new__(ctx) : ctx' = EnterObject(ctx, i)
    /\ op' = "with_new" /\ res' = PyNone
    /\ UNCHANGED <<py2, count, a, b, c, p>>

\* `with ci:` for an object ci = context(name) made before any block was
\* entered
DoWithHeld ==
    /\ Len(ctx.blocks) < MaxDepth
    /\ \E i \in Objs : ctx' = EnterObject(ctx, i)
    /\ op' = "with_held" /\ res' = PyNone
    /\ UNCHANGED <<py2, count, a, b, c, p>>

\* the innermost with block ends
DoWithExit ==
    /\ ctx.blocks # <<>>
    /\ ctx' = ExitObject(ctx)
    /\ op' = "with_exit"
    /\ res' = IF ctx.counts[ctx.blocks[Len(ctx.blocks)]] = 1 /\ ctx.contexts = 0
              THEN Raise("KeyError") ELSE PyNone
    /\ UNCHANGED <<py2, count, a, b, c, p>>

Next ==
    \/ CallerEnter
    \/ CallerExit
    \/ DoAnd
    \/ DoEq
    \/ DoContains
    \/ DoLe
    \/ DoGe
    \/ DoNe
    \/ DoLt
    \/ DoGt
    \/ DoOverlaps
    \/ DoIsdisjoint
    \/ DoEmptyAdd
    \/ DoEmptyOr
    \/ DoValid
    \/ DoFold
    \/ DoContainsB

Spec == Init /\ [][Next]_vars

\* an interval a against an operand b of another type, and against a date p
InitX ==
    /\ py2 \in BOOLEAN
    /\ count = 0
    /\ a \in Intervals
    /\ b \in Incompatible
    /\ c = b
    /\ p \in Dates
    /\ op = "none"
    /\ res = PyNone
    /\ ctx = NoBlocks

NextX ==
    \/ CallerEnter
    \/ CallerExit
    \/ DoAnd
    \/ DoEq
    \/ DoNe
    \/ DoLe
    \/ DoGe
    \/ DoLt
    \/ DoGt
    \/ DoContainsB
    \/ DoOverlaps
    \/ DoIsdisjoint
    \/ DoEmptyAdd
    \/ DoEmptyOr
    \/ DoAndP
    \/ DoEqP

SpecX == InitX /\ [][NextX]_vars

\* a time span a whose attributes are assigned after construction; b and c
\* keep the value a was constructed with
InitM ==
    /\ py2 \in BOOLEAN
    /\ count = 0
    /\ a \in Spans
    /\ b = a
    /\ c = a
    /\ p \in Dates
    /\ op = "none"
    /\ res = PyNone
    /\ ctx = NoBlocks

NextM ==
    \/ CallerEnter
    \/ CallerExit
    \/ DoSetAttr
    \/ DoAnd
    \/ DoEq
    \/ DoContains
    \/ DoValid

SpecM == InitM /\ [][NextM]_vars

\* the flex date of p against the infinities and the dates
InitCmp ==
    /\ py2 \in BOOLEAN
    /\ count = 0
    /\ a = Span(PyNone, PyNone)
    /\ b = a
    /\ c = a
    /\ p \in Dates
    /\ op = "none"
    /\ res = PyNone
    /\ ctx = NoBlocks

NextCmp ==
    \/ CallerEnter
    \/ CallerExit
    \/ DoCompare

SpecCmp == InitCmp /\ [][NextCmp]_vars

\* with blocks of one name, on objects made on the spot or held from before
InitCtx ==
    /\ py2 \in BOOLEAN
    /\ count = 0
    /\ a = Span(PyNone, PyNone)
    /\ b = a
    /\ c = a
    /\ p = Date(0)
    /\ op = "none"
    /\ res = PyNone
    /\ ctx = NoBlocks

NextCtx ==
    \/ DoWithNew
    \/ DoWithHeld
    \/ DoWithExit

SpecCtx == InitCtx /\ [][NextCtx]_vars

\* three intervals, for the laws over three operands
Init3 ==
    /\ py2 \in BOOLEAN
    /\ count = 0
    /\ a \in Intervals
    /\ b \in Intervals
    /\ c \in Intervals
    /\ p = Date(0)
    /\ op = "none"
    /\ res = PyNone
    /\ ctx = NoBlocks

Next3 ==
    \/ CallerEnter
    \/ CallerExit
    \/ DoAnd
    \/ DoIntersection
    \/ DoLe
    \/ DoIntersection0
    \/ DoIntersection1

Spec3 == Init3 /\ [][Next3]_vars

(***************************************************************************)
(* Properties                                                              *)
(***************************************************************************)
\* a bound read as the claims read it: the day of a date, a missing start
\* below every day, a missing end above every day
IsBound(v) == v.kind \in {"None", "date", "xdate"}
StartRank(v) == IF v.kind = "None" THEN -1 ELSE v.ord
EndRank(v) == IF v.kind = "None" THEN MaxDate + 1 ELSE v.ord
IsSpan(x) == x.kind = "TimeSpan"
BothSpans == IsSpan(a) /\ IsSpan(b)
\* a span that is valid: unbound on a side, or start not after end
IsValid(x) ==
    \/ x.start_date.kind = "None"
    \/ x.end_date.kind = "None"
    \/ x.start_date.ord <= x.end_date.ord
ValidOrEmpty(x) == x = EmptyTimeSpan \/ (IsSpan(x) /\ IsValid(x))
Universal == Span(PyNone, PyNone)
\* the span with the given start and end ranks
HasRanks(x, lo, hi) ==
    /\ IsSpan(x)
    /\ IsBound(x.start_date) /\ IsBound(x.end_date)
    /\ StartRank(x.start_date) = lo
    /\ EndRank(x.end_date) = hi
Greater(m, n) == IF m >= n THEN m ELSE n
Lesser(m, n) == IF m <= n THEN m ELSE n

\* C1: for Spans a and b, a & b is the Span from the greater start to the
\* lesser end (a missing start read as -infinity, a missing end as
\* +infinity) when that start is not after that end, and EmptyTimeSpan
\* otherwise; with the three examples of the claim.
C1_Intersection ==
    (op = "and" /\ BothSpans) =>
        LET lo == Greater(StartRank(a.start_date), StartRank(b.start_date))
            hi == Lesser(EndRank(a.end_date), EndRank(b.end_date))
        IN /\ IF lo <= hi THEN HasRanks(res, lo, hi) ELSE res = EmptyTimeSpan
           /\ (a = Span(Date(0), Date(2)) /\ b = Span(Date(1), Date(3)))
                 => HasRanks(res, 1, 2)
           /\ (a = Span(Date(0), Date(1)) /\ b = Span(Date(2), Date(3)))
                 => res = EmptyTimeSpan
           /\ (a = Span(PyNone, Date(2)) /\ b = Span(Date(0), PyNone))
                 => HasRanks(res, 0, 2)

C1_Witness ==
    /\ op = "and"
    /\ a = Span(Date(0), Date(2)) /\ b = Span(Date(1), Date(3))
    /\ IsSpan(res) /\ res.start_date.ord = 1 /\ res.end_date.ord = 2

\* C2: the Span returned by a & b has start None exactly when both starts
\* are None and end None exactly when both ends are None, and never holds
\* an infinity as a bound; the universal span intersected with itself is
\* the universal span.
C2_Unboundedness ==
    (op = "and" /\ BothSpans /\ res # EmptyTimeSpan) =>
        /\ IsSpan(res)
        /\ IsBound(res.start_date) /\ IsBound(res.end_date)
        /\ (res.start_date = PyNone) <=>
              (a.start_date = PyNone /\ b.start_date = PyNone)
        /\ (res.end_date = PyNone) <=>
              (a.end_date = PyNone /\ b.end_date = PyNone)
        /\ (a = Universal /\ b = Universal) => res = Universal

C2_Witness ==
    /\ op = "and"
    /\ a = Universal /\ b = Universal
    /\ res = Universal

\* C3 as stated: a & a == a for every Span that can be constructed, a Span
\* whose start is after its end included, and for Empty.
C3_Original ==
    (op = "and" /\ a = b) => Eq(res, a, count) = Bool(TRUE)

\* C3 amended: a & a == a for every valid Span a (unbound on a side, or
\* start not after end) and for Empty; for a Span whose start is after its
\* end, a & a is EmptyTimeSpan.
C3_Idempotent ==
    (op = "and" /\ a = b) =>
        /\ ValidOrEmpty(a) => Eq(res, a, count) = Bool(TRUE)
        /\ ~ValidOrEmpty(a) => res = EmptyTimeSpan

C3_Witness ==
    /\ op = "and"
    /\ a = b
    /\ a = Span(Date(1), Date(2))
    /\ Eq(res, a, count) = Bool(TRUE)

\* C4: intersection is commutative on valid Spans: (a & b) == (b & a).
C4_Commutative ==
    (op = "and" /\ BothSpans /\ IsValid(a) /\ IsValid(b)) =>
        Eq(res, And(b, a, count), count) = Bool(TRUE)

C4_Witness ==
    /\ op = "and"
    /\ a = Span(PyNone, Date(2)) /\ b = Span(Date(1), PyNone)
    /\ HasRanks(res, 1, 2)
    /\ HasRanks(And(b, a, count), 1, 2)

\* C5: intersection is associative over all Intervals, valid or not:
\* ((a & b) & c) == (a & (b & c)); a.intersection(b, c) is the left side.
C5_Associative ==
    /\ Eq(And(And(a, b, count), c, count),
          And(a, And(b, c, count), count), count) = Bool(TRUE)
    /\ (op = "intersection") =>
          Eq(res, And(a, And(b, c, count), count), count) = Bool(TRUE)

C5_Witness ==
    /\ op = "intersection"
    /\ a = Span(Date(0), Date(3))
    /\ b = Span(Date(1), PyNone)
    /\ c = Span(PyNone, Date(2))
    /\ HasRanks(res, 1, 2)

\* C6: Empty is absorbing on both sides: a & Empty and Empty & a are Empty
\* for every Interval a.
C6_Absorbing ==
    (op = "and" /\ (a = EmptyTimeSpan \/ b = EmptyTimeSpan)) =>
        res = EmptyTimeSpan

C6_Witness ==
    /\ op = "and"
    /\ a = EmptyTimeSpan /\ b = Span(Date(0), Date(1))
    /\ res = EmptyTimeSpan

\* C7 as stated: Span(None, None) & a == a and a & Span(None, None) == a
\* for every Interval a, any constructible Span or Empty.
C7_Original ==
    /\ (op = "and" /\ a = Universal) => Eq(res, b, count) = Bool(TRUE)
    /\ (op = "and" /\ b = Universal) => Eq(res, a, count) = Bool(TRUE)

\* C7 amended: Span(None, None) & a == a and a & Span(None, None) == a for
\* every valid Span a and for Empty; for a Span whose start is after its
\* end both intersections are EmptyTimeSpan.
C7_Top ==
    /\ (op = "and" /\ a = Universal) =>
          /\ ValidOrEmpty(b) => Eq(res, b, count) = Bool(TRUE)
          /\ ~ValidOrEmpty(b) => res = EmptyTimeSpan
    /\ (op = "and" /\ b = Universal) =>
          /\ ValidOrEmpty(a) => Eq(res, a, count) = Bool(TRUE)
          /\ ~ValidOrEmpty(a) => res = EmptyTimeSpan

C7_Witness ==
    /\ op = "and"
    /\ a = Universal /\ b = Span(Date(2), Date(2))
    /\ HasRanks(res, 2, 2)

\* C8: for a Span a and a date p, `p in a` is true iff (a.start is None or
\* a.start <= p) and (a.end is None or p <= a.end); `p in Empty` is false.
C8_Contains ==
    (op = "contains") =>
        IF IsSpan(a)
        THEN res = Bool(/\ (a.start_date = PyNone \/ a.start_date.ord <= p.ord)
                        /\ (a.end_date = PyNone \/ p.ord <= a.end_date.ord))
        ELSE res = Bool(FALSE)

C8_Witness ==
    /\ op = "contains"
    /\ a = Span(Date(1), PyNone) /\ p = Date(1)
    /\ res = Bool(TRUE)

\* C9: for every date p and Interval a, (p in a) equals
\* ((a & TimeSpan.from_date(p)) is not Empty).
C9_ContainsAsIntersection ==
    (op = "contains") =>
        res = Bool(And(a, from_date(p), count) # EmptyTimeSpan)

C9_Witness ==
    /\ op = "contains"
    /\ a = Span(Date(1), Date(2)) /\ p = Date(2)
    /\ res = Bool(TRUE)
    /\ HasRanks(And(a, from_date(p), count), 2, 2)

\* C10: a <= b iff (a & b) == a and a >= b iff (a & b) == b for every pair
\* of Intervals; so Empty <= x always, Empty >= x only for x = Empty, and a
\* Span is never a subset of Empty.
C10_SubsetBySection ==
    /\ (op = "le") =>
          /\ res = Eq(And(a, b, count), a, count)
          /\ a = EmptyTimeSpan => res = Bool(TRUE)
          /\ (IsSpan(a) /\ b = EmptyTimeSpan) => res = Bool(FALSE)
    /\ (op = "ge") =>
          /\ res = Eq(And(a, b, count), b, count)
          /\ a = EmptyTimeSpan => res = Bool(b = EmptyTimeSpan)

C10_Witness ==
    /\ op = "le"
    /\ a = EmptyTimeSpan /\ b = Span(Date(0), Date(1))
    /\ res = Bool(TRUE)

\* C11: with a Span a on the left and any Interval b on the right, a < b
\* and a > b return a Boolean: a < b iff (a != b and a <= b), a > b iff
\* (a != b and a >= b); a < a and a > a are false; a > Empty is true.
C11_ProperOrders ==
    (IsSpan(a) /\ op \in {"lt", "gt"}) =>
        /\ res.kind = "bool"
        /\ op = "lt" => res = Bool(a # b /\ Le(a, b, count) = Bool(TRUE))
        /\ op = "gt" => res = Bool(a # b /\ Ge(a, b, count) = Bool(TRUE))
        /\ a = b => res = Bool(FALSE)
        /\ (op = "gt" /\ b = EmptyTimeSpan) => res = Bool(TRUE)

\* C12: with Empty on the left, Empty < x iff x is not Empty, and
\* Empty > x is false for every Span, date or Empty x.
C12_EmptyProperOrders ==
    /\ (a = EmptyTimeSpan /\ op = "lt") => res = Bool(b # EmptyTimeSpan)
    /\ (a = EmptyTimeSpan /\ op = "gt") => res = Bool(FALSE)
    /\ (a = EmptyTimeSpan /\ op \in {"lt", "gt"}) =>
          /\ EmptyTimeSpan__lt__(a, p) = Bool(TRUE)
          /\ EmptyTimeSpan__gt__(a, p) = Bool(FALSE)

\* C13: the subset order is antisymmetric over all Intervals, valid or
\* not: if a <= b and b <= a then a == b.
C13_Antisymmetric ==
    (op = "le" /\ res = Bool(TRUE) /\ Le(b, a, count) = Bool(TRUE)) =>
        Eq(a, b, count) = Bool(TRUE)

C13_Witness ==
    /\ op = "le"
    /\ a = Span(Date(0), PyNone) /\ b = Span(Date(0), PyNone)
    /\ res = Bool(TRUE)
    /\ Le(b, a, count) = Bool(TRUE)
    /\ Eq(a, b, count) = Bool(TRUE)

C16_Overlaps ==
    /\ (IsSpan(a) /\ op = "overlaps") =>
          res = Bool(And(a, b, count) # EmptyTimeSpan)
    /\ (IsSpan(a) /\ op = "isdisjoint") =>
          /\ res = Bool(And(a, b, count) = EmptyTimeSpan)
          /\ res = Not(overlaps(a, b, count))

C16_Witness ==
    /\ op = "isdisjoint"
    /\ a = Span(Date(0), Date(1)) /\ b = Span(Date(2), Date(3))
    /\ res = Bool(TRUE)
    /\ overlaps(a, b, count) = Bool(FALSE)

\* C17 as stated: Empty.isdisjoint(x) is true for every Span x and for
\* x = Empty.
C17_Original ==
    (a = EmptyTimeSpan /\ op = "isdisjoint") => res = Bool(TRUE)

\* C17 amended: Empty.isdisjoint(x) is true for every Span x and false for
\* x = Empty (isdisjoint is __ne__: disjoint with any set but itself).
C17_EmptyDisjoint ==
    (a = EmptyTimeSpan /\ op = "isdisjoint") =>
        /\ IsSpan(b) => res = Bool(TRUE)
        /\ b = EmptyTimeSpan => res = Bool(FALSE)

C17_Witness ==
    /\ op = "isdisjoint"
    /\ a = EmptyTimeSpan /\ b = Span(Date(0), Date(1))
    /\ res = Bool(TRUE)

\* C18: Empty | x and Empty + x return x itself, for every Interval or
\* date x.
C18_UnionIdentity ==
    (a = EmptyTimeSpan /\ op \in {"add", "or"}) =>
        /\ res = b
        /\ EmptyTimeSpan__add__(a, p) = p
        /\ EmptyTimeSpan__or__(a, p) = p

C18_Witness ==
    /\ op = "or"
    /\ a = EmptyTimeSpan /\ b = Span(Date(1), PyNone)
    /\ res = Span(Date(1), PyNone)

\* C19: a Span can be constructed with any bounds, also start after end;
\* valid is true when the span is unbound on a side and, when it is bound
\* on both sides, true iff start <= end.
C19_Valid ==
    (op = "valid") =>
        /\ TimeSpan__init__(a.start_date, a.end_date) = a
        /\ (a.start_date = PyNone \/ a.end_date = PyNone) => res = Bool(TRUE)
        /\ (a.start_date # PyNone /\ a.end_date # PyNone) =>
              res = Bool(a.start_date.ord <= a.end_date.ord)

C19_Witness ==
    /\ op = "valid"
    /\ a = Span(Date(2), Date(1))
    /\ res = Bool(FALSE)

\* C20: a.intersection(o1, ..., on) is the left fold of & from a:
\* ((a & o1) & o2) ...; it is Empty as soon as an intermediate
\* intersection is Empty, and with no arguments it returns a.
C20_LeftFold ==
    /\ (op = "intersection0") => res = a
    /\ (op = "intersection1") => res = And(a, b, count)
    /\ (op = "intersection") =>
          /\ res = And(And(a, b, count), c, count)
          /\ And(a, b, count) = EmptyTimeSpan => res = EmptyTimeSpan

C20_Witness ==
    /\ op = "intersection"
    /\ a = Span(Date(0), Date(1))
    /\ b = Span(Date(2), Date(3))
    /\ c = Span(Date(0), Date(3))
    /\ And(a, b, count) = EmptyTimeSpan
    /\ res = EmptyTimeSpan

\* C21 as stated: folding an intersection over zero spans raises
\* EmptyFoldError and returns no Interval.
C21_Original ==
    (op = "fold0") => res = Raise("EmptyFoldError")

\* C21 amended: folding an intersection over zero spans is an error: the
\* call TimeSpan.intersection() without any span raises TypeError and
\* returns no Interval, no identity element is substituted; with one span
\* the fold returns that span.
C21_EmptyFold ==
    /\ (op = "fold0") => res = Raise("TypeError")
    /\ (op = "fold1" /\ IsSpan(a)) => res = a

C21_Witness ==
    /\ op = "fold0"
    /\ res = Raise("TypeError")
    /\ a = Span(Date(0), Date(1))

C23_Immutable == [][a' = a]_vars

\* C24: for Spans a and b, `b in a` is true exactly when (a & b) == b.
C24_Covers ==
    (op = "contains_b" /\ BothSpans)
        => res = Eq(And(a, b, count), b, count)

\* C25: a date operand is coerced to the one-day Span: (a == d) equals
\* (a == from_date(d)) and (a & d) equals (a & from_date(d)); an operand of
\* & that is neither a date nor a TimeSpan is passed unchanged to the
\* TimeSpan constructor.
C25_Coercion ==
    /\ (op = "eq_p" /\ IsSpan(a)) => res = Eq(a, from_date(p), count)
    /\ (op = "and_p" /\ IsSpan(a)) => res = And(a, from_date(p), count)
    /\ (op = "and" /\ IsSpan(a) /\ b \in Incompatible)
          => res = And(a, TimeSpan__init__(b, PyNone), count)

\* C26: every infinity_extended_date p lies strictly between the
\* infinities: p < Infinity, p <= Infinity, p > -Infinity, p >= -Infinity
\* are true, the four opposite comparisons are false, p == Infinity and
\* p == -Infinity are false; against another date the comparison is that of
\* the dates.
C26_Ordering ==
    (res.kind = "compare") =>
        /\ (res.other = Infinity) => res.v = (op \in {"__lt__", "__le__"})
        /\ (res.other = NegInfinity) => res.v = (op \in {"__gt__", "__ge__"})
        /\ IsDate(res.other) =>
              res.v = CASE op = "__le__" -> p.ord <= res.other.ord
                        [] op = "__lt__" -> p.ord < res.other.ord
                        [] op = "__ge__" -> p.ord >= res.other.ord
                        [] op = "__gt__" -> p.ord > res.other.ord
                        [] op = "__eq__" -> p.ord = res.other.ord

C26_Witness ==
    /\ py2 /\ op = "__ge__"
    /\ res = [kind |-> "compare", other |-> NegInfinity, v |-> TRUE]
    /\ p = Date(MaxDate)

\* C27: nesting with blocks of one name in one thread, two context(name)
\* objects made before either is entered included: `name in context` is
\* true exactly while a block is open, the count of the registered object
\* is the nesting depth, an entry while the name is active reuses the
\* active object, and no exit raises.
C27_Nesting ==
    /\ NameInContext(ctx) = (ctx.blocks # <<>>)
    /\ (ctx.contexts # 0) => ctx.counts[ctx.contexts] = Len(ctx.blocks)
    /\ \A i \in 1..Len(ctx.blocks) : ctx.blocks[i] = ctx.blocks[1]
    /\ ~ctx.raised

\* C28: TimeSpan.valid and TimeSpan.__and__ leave the NEEDS_FLEX_DATE flag
\* as they found it: whether the name is in the context, and its count,
\* are the same after the call as before, for a caller outside and for a
\* caller inside the context; a read of start_date / end_date outside the
\* context after the call gives the stored value.
C28_FlagRestored ==
    /\ [][(op' \in {"and", "valid"}) =>
             /\ count' = count
             /\ MetaContext__contains__(count') = MetaContext__contains__(count)]_vars
    /\ []((op \in {"and", "valid"} /\ count = 0 /\ IsSpan(a)) =>
             /\ DateField__get__(a, "start_date", count) = a.start_date
             /\ DateField__get__(a, "end_date", count) = a.end_date)

C28_Witness ==
    /\ op = "and" /\ count = 1
    /\ a = Span(Date(0), Date(2)) /\ b = Span(Date(1), PyNone)
    /\ res = Span(Date(1), Date(2))

\* C29: intersection has set semantics on points: for all Intervals a, b
\* (a Span, valid or not, or Empty as a) and every date p, p in (a & b)
\* exactly when p in a and p in b.
C29_PointwiseAnd ==
    (op = "and") =>
        Contains(res, p, count).v = (Contains(a, p, count).v /\ Contains(b, p, count).v)

C29_Witness ==
    /\ op = "and"
    /\ a = Span(Date(0), Date(2)) /\ b = Span(Date(1), Date(3)) /\ p = Date(1)
    /\ res = Span(Date(1), Date(2))
    /\ Contains(res, p, count) = Bool(TRUE)

\* C30: equality is symmetric and total over Intervals: for a, b each a
\* Span or Empty, a == b and b == a both return a Boolean, the same one,
\* and a != b is its negation; s == Empty is false, not an error, for every
\* Span s.
C30_EqTotal ==
    /\ (op = "eq") =>
          /\ res.kind = "bool"
          /\ res = Eq(b, a, count)
          /\ (IsSpan(a) /\ b = EmptyTimeSpan) => res = Bool(FALSE)
    /\ (op = "ne") => res = Not(Eq(a, b, count))
=============================================================================
